---- MODULE Spec2Model ----
(***************************************************************************)
(* The broadcast/subscription core of the logistics dashboard backend:     *)
(* MetricsService + MetricsSimulator (the store and its generator),        *)
(* ConnectionManager (the registry of websocket sinks), MetricsBroadcaster *)
(* (the loop task with its start/stop lock) and the metrics_ws handler     *)
(* that drives them.                                                       *)
(*                                                                         *)
(* Scheduling is asyncio's: one coroutine runs at a time and control       *)
(* changes hands only where an await really suspends.  These are           *)
(*   websocket.accept(), send_json() and receive_text() in a handler,      *)
(*   send_json() and asyncio.sleep() in the loop task,                     *)
(*   "await self._task" in stop(), and                                     *)
(*   "async with self._lock" of the broadcaster when the lock is taken.    *)
(* An asyncio.Lock that is free and has no waiters is acquired without     *)
(* suspending, so the service lock and the manager lock, whose critical    *)
(* sections hold no await, are acquired and released inside one step.      *)
(* Each action below is the code between two suspensions.                  *)
(*                                                                         *)
(* A send_json() delivers (or fails) at some point while its caller is     *)
(* suspended in it: the effect is placed at the step that resumes the      *)
(* caller, so two sends to one websocket that overlap in time may reach    *)
(* the client in either order.                                             *)
(***************************************************************************)
EXTENDS Integers, Sequences, FiniteSets, TLC

\* Bounds of the model.
NumClients == 2
MaxTick == 3
SimCalls == 2

\* timedelta(minutes=5) of generate_next.
StepMinutes == 5

Clients == 1..NumClients
\* The caller of stop() that is not a handler: shutdown_event.
ShutdownCaller == 0
Callers == Clients \cup {ShutdownCaller}
\* Every handler calls start() at most once, so no more tasks are ever made.
TaskIds == 1..NumClients
\* MetricsBroadcaster._task = None
None == 0
\* An asyncio.Lock nobody holds.
Free == -1

VARIABLES
  tick,             \* MetricsSimulator._tick
  current_metrics,  \* MetricsService._current_metrics
  svc_lock,         \* MetricsService._lock: Free or its holder
  log,              \* history: one entry per generate_next call
  connections,      \* ConnectionManager._connections (a list)
  mgr_lock,         \* ConnectionManager._lock
  task,             \* MetricsBroadcaster._task: None or a task id
  b_lock,           \* MetricsBroadcaster._lock: Free or the caller holding it
  b_waiters,        \* the FIFO of callers suspended in its acquire()
  tasks,            \* the _run tasks ever created, by id
  pc,               \* where each handler / shutdown_event is suspended
  initial,          \* the local "current" of each handler
  received,         \* history: what each client has been delivered, in order
  hung,             \* the clients whose transport never completes a send
  lastRead,         \* history: the last GET /api/metrics, how far what it
                    \* returned lags the stored snapshot and when it ran
  sim               \* a MetricsSimulator driven on its own: one KPI field of
                    \* the snapshot it was last given, and its _tick

vars == <<tick, current_metrics, svc_lock, log, connections, mgr_lock, task,
          b_lock, b_waiters, tasks, pc, initial, received, hung, lastRead,
          sim>>

svcVars == <<tick, current_metrics, svc_lock, log>>
brdVars == <<task, b_lock, b_waiters>>

----------------------------------------------------------------------------
\* Sequences as Python lists.

Range(s) == {s[i] : i \in 1..Len(s)}

InList(x, s) == \E i \in 1..Len(s) : s[i] = x

\* list.remove(x): drops the first occurrence.
RemoveFirst(s, x) ==
  LET i == CHOOSE j \in 1..Len(s) : s[j] = x /\ \A k \in 1..(j - 1) : s[k] # x
  IN  SubSeq(s, 1, i - 1) \o SubSeq(s, i + 1, Len(s))

----------------------------------------------------------------------------
\* MetricsSimulator and MetricsService.

\* The snapshot as far as the broadcast core looks at it: its timestamp, in
\* minutes since process start.
initial_state == [timestamp |-> 0]

\* generate_next that copies the timestamp of the previous snapshot.
generate_next_stale(previous) == [timestamp |-> previous.timestamp]

generate_next(previous) == [timestamp |-> previous.timestamp + StepMinutes]

\* generate_next_metrics that returns the next snapshot without storing it.
generate_next_metrics_lost(caller) ==
  /\ svc_lock = Free
  /\ tick < MaxTick
  /\ tick' = tick + 1
  /\ current_metrics' = current_metrics
  /\ log' = Append(log, [tick |-> tick + 1,
                         previous |-> current_metrics,
                         result |-> generate_next(current_metrics)])
  /\ svc_lock' = Free

\* generate_next_metrics whose caller keeps the lock while it goes on to
\* broadcast.
generate_next_metrics_held(caller) ==
  /\ svc_lock = Free
  /\ tick < MaxTick
  /\ tick' = tick + 1
  /\ current_metrics' = generate_next(current_metrics)
  /\ log' = Append(log, [tick |-> tick + 1,
                         previous |-> current_metrics,
                         result |-> generate_next(current_metrics)])
  /\ svc_lock' = caller

\* async with self._lock:
\*     self._current_metrics = self._simulator.generate_next(self._current_metrics)
\*     return self._current_metrics
generate_next_metrics(caller) ==
  /\ svc_lock = Free
  /\ tick < MaxTick
  /\ tick' = tick + 1
  /\ current_metrics' = generate_next(current_metrics)
  /\ log' = Append(log, [tick |-> tick + 1,
                         previous |-> current_metrics,
                         result |-> generate_next(current_metrics)])
  /\ svc_lock' = Free

\* async with self._lock: return self._current_metrics
get_current_metrics == current_metrics

----------------------------------------------------------------------------
\* The KPI arithmetic of MetricsSimulator.generate_next. Every KPI field is
\* computed by the same expression,
\*   round(bounded(previous + jitter(amount) + wave * coefficient), digits),
\* from its own previous value and its own draw, so one field at a time is
\* followed. Values are in thousandths.

\* Per field: the value of initial_state, the jitter amount, the coefficient
\* of the wave term (negative where the code subtracts it), the bounds of
\* bounded, and the rounding step (100 for round(x, 1), 10 for round(x, 2)).
Kpi ==
  "on_time_delivery_rate" :>
    [base |-> 94200, amount |-> 1200, wave |-> 600, minimum |-> 85000, maximum |-> 99000,
     unit |-> 100] @@
  "avg_delivery_time" :>
    [base |-> 31500, amount |-> 1500, wave |-> -800, minimum |-> 24000, maximum |-> 48000,
     unit |-> 100] @@
  "perfect_order_rate" :>
    [base |-> 92000, amount |-> 1000, wave |-> 0, minimum |-> 85000, maximum |-> 98000,
     unit |-> 100] @@
  "orders_per_hour" :>
    [base |-> 118000, amount |-> 12000, wave |-> 5000, minimum |-> 70000, maximum |-> 180000,
     unit |-> 100] @@
  "order_accuracy" :>
    [base |-> 97100, amount |-> 800, wave |-> 0, minimum |-> 92000, maximum |-> 99500,
     unit |-> 100] @@
  "stockout_rate" :>
    [base |-> 2800, amount |-> 400, wave |-> -200, minimum |-> 500, maximum |-> 8000,
     unit |-> 10] @@
  "pick_pack_cycle_time" :>
    [base |-> 24000, amount |-> 2000, wave |-> -500, minimum |-> 15000, maximum |-> 40000,
     unit |-> 100] @@
  "truck_utilization" :>
    [base |-> 76000, amount |-> 2500, wave |-> 1200, minimum |-> 55000, maximum |-> 95000,
     unit |-> 100] @@
  "avg_dwell_time" :>
    [base |-> 46000, amount |-> 3000, wave |-> 1000, minimum |-> 30000, maximum |-> 80000,
     unit |-> 100] @@
  "cost_per_order" :>
    [base |-> 8700, amount |-> 600, wave |-> -300, minimum |-> 6500, maximum |-> 12000,
     unit |-> 10] @@
  "operating_ratio" :>
    [base |-> 86000, amount |-> 1500, wave |-> -1000, minimum |-> 78000, maximum |-> 95000,
     unit |-> 100] @@
  "hours_driven" :>
    [base |-> 910000, amount |-> 25000, wave |-> 8000, minimum |-> 700000, maximum |-> 1100000,
     unit |-> 100] @@
  "incident_rate" :>
    [base |-> 2100, amount |-> 400, wave |-> 100, minimum |-> 500, maximum |-> 5000,
     unit |-> 10]

Fields == DOMAIN Kpi

\* math.sin(tick / 6) for tick = 1, 2, ..., in thousandths.
Sine == <<166, 327, 479, 618, 740, 841, 919, 972, 997, 995, 966, 909, 828,
          723, 598, 457, 303, 141, -25, -191, -351, -501, -638, -757, -855,
          -929, -978, -999, -993, -959, -899, -813, -706, -578, -435, -279,
          -116, 50>>

\* generate_next without the clamp.
bounded_off(value, minimum, maximum) == value

\* max(min(value, maximum), minimum)
bounded(value, minimum, maximum) ==
  LET lower == IF value < maximum THEN value ELSE maximum
  IN  IF lower > minimum THEN lower ELSE minimum

\* random.uniform(-amount, amount): the ends, their neighbours, values that
\* land on and next to a rounding tie, and small draws.
jitter(amount) ==
  {-amount, 1 - amount, -55, -50, -45, -5, -4, 0, 4, 5, 45, 50, 55,
   amount - 1, amount}

\* round(value, digits) of a non-negative value: to the nearest multiple of
\* unit, a tie to the even one.
round(value, unit) ==
  LET q == value \div unit
      r == value % unit
  IN  IF 2 * r < unit THEN q * unit
      ELSE IF 2 * r > unit THEN (q + 1) * unit
      ELSE IF q % 2 = 0 THEN q * unit ELSE (q + 1) * unit

\* The value bounded is given for field f at tick tk with draw j.
kpi_raw(f, previous, tk, j) ==
  previous + j + (Sine[tk] * Kpi[f].wave) \div 1000

\* The value of field f in the snapshot generate_next returns.
kpi_next(f, previous, tk, j) ==
  round(bounded(kpi_raw(f, previous, tk, j), Kpi[f].minimum, Kpi[f].maximum),
        Kpi[f].unit)

\* No simulator is driven on its own.
NoSim == [field |-> "none", tick |-> 0, calls |-> 0, value |-> 0, raw |-> 0]

\* The snapshots generate_next is given: for each field the value of
\* initial_state, the two bounds and their neighbours on the rounding grid,
\* at the start, before the crest and before the trough of the wave.
SimInputs ==
  UNION {{[field |-> f, tick |-> tk, calls |-> 0, value |-> v, raw |-> v] :
            tk \in {0, 8, 27},
            v \in {Kpi[f].base, Kpi[f].minimum, Kpi[f].minimum + Kpi[f].unit,
                   Kpi[f].maximum - Kpi[f].unit, Kpi[f].maximum}} :
         f \in Fields}

\* simulator.generate_next(previous): _tick += 1, and the followed field of
\* the returned snapshot. raw keeps what bounded was given.
SimGenerate ==
  /\ sim.field \in Fields
  /\ sim.calls < SimCalls
  /\ sim.tick < Len(Sine)
  /\ \E j \in jitter(Kpi[sim.field].amount) :
       sim' = [sim EXCEPT
                 !.tick = @ + 1,
                 !.calls = @ + 1,
                 !.raw = kpi_raw(sim.field, sim.value, sim.tick + 1, j),
                 !.value = kpi_next(sim.field, sim.value, sim.tick + 1, j)]
  /\ UNCHANGED <<svcVars, connections, mgr_lock, brdVars, tasks, pc, initial, received,
                 hung, lastRead>>

----------------------------------------------------------------------------
\* ConnectionManager.

connection_count == Len(connections)

\* disconnect that drops the connection added last, whichever it is given.
disconnect_last(conns, ws) ==
  IF conns = <<>> THEN conns ELSE SubSeq(conns, 1, Len(conns) - 1)

disconnect(conns, ws) == IF InList(ws, conns) THEN RemoveFirst(conns, ws) ELSE conns

\* for connection in stale: await self.disconnect(connection)
RECURSIVE disconnect_stale(_, _)
disconnect_stale(conns, stale) ==
  IF stale = <<>> THEN conns
  ELSE disconnect_stale(disconnect(conns, Head(stale)), Tail(stale))

Direct(m) == [src |-> "direct", timestamp |-> m.timestamp]
Broadcast(m) == [src |-> "broadcast", timestamp |-> m.timestamp]

----------------------------------------------------------------------------
\* The _run tasks.

NoPayload == [timestamp |-> -1]

Unborn == [pc |-> "unborn", payload |-> NoPayload, snap |-> <<>>, idx |-> 0,
           stale |-> <<>>, cancelReq |-> FALSE, cut |-> "none", unsent |-> 0]

\* A task that has ended; cut tells where the CancelledError reached it and
\* unsent how many sinks of the list of its broadcast were never sent to.
Ended(where, unsent) == [Unborn EXCEPT !.pc = "done", !.cut = where, !.unsent = unsent]

Live(t) == tasks[t].pc \in {"created", "send", "sleep"}

\* stop() that awaits the task without having cancelled it.
cancel_forgotten(t) == tasks

\* Task.cancel(): the CancelledError is thrown into the task at its next step.
cancel(t) ==
  IF Live(t) THEN [tasks EXCEPT ![t].cancelReq = TRUE] ELSE tasks

\* broadcast without its try/except: the first failing send ends the
\* iteration and the rest of the list is skipped.
broadcast_step_abort(r, outcome) ==
  IF outcome = "ok"
  THEN [r EXCEPT !.idx = r.idx + 1]
  ELSE [r EXCEPT !.idx = Len(r.snap) + 1,
                 !.stale = Append(r.stale, r.snap[r.idx])]

\* broadcast whose except clause re-raises: the failure comes out of
\* broadcast into _run, which does not catch it, and the task ends.
broadcast_step_raise(r, outcome) ==
  IF outcome = "ok"
  THEN [r EXCEPT !.idx = r.idx + 1]
  ELSE [r EXCEPT !.pc = "done",
                 !.stale = Append(r.stale, r.snap[r.idx])]

\* One pass of the for loop of broadcast after the await on send_json
\* returned: "ok", or raised the named exception.
broadcast_step(r, outcome) ==
  [r EXCEPT !.idx = r.idx + 1,
            !.stale = IF outcome = "ok" THEN r.stale
                      ELSE Append(r.stale, r.snap[r.idx])]

\* payload = await self._update_coro(); await self._manager.broadcast(payload)
\* up to the first suspension: the first send_json, or the sleep when there
\* is nobody to send to.
Cycle(t) ==
  /\ generate_next_metrics(t)
  /\ mgr_lock = Free
  /\ LET payload == generate_next(current_metrics)
         snap == connections
     IN  tasks' = [tasks EXCEPT ![t] =
                     [pc |-> IF snap = <<>> THEN "sleep" ELSE "send",
                      payload |-> payload, snap |-> snap,
                      idx |-> IF snap = <<>> THEN 0 ELSE 1,
                      stale |-> <<>>, cancelReq |-> FALSE, cut |-> "none",
                      unsent |-> 0]]
  /\ UNCHANGED <<connections, mgr_lock, brdVars, pc, initial, received, hung, lastRead, sim>>

\* The first step of a task made by create_task(self._run()).
RunStart(t) ==
  /\ tasks[t].pc = "created"
  /\ ~tasks[t].cancelReq
  /\ Cycle(t)

\* asyncio.sleep(self._interval) is over: while True goes round.
SleepElapsed(t) ==
  /\ tasks[t].pc = "sleep"
  /\ ~tasks[t].cancelReq
  /\ Cycle(t)

\* connection.send_json(message) returns or raises WebSocketDisconnect or
\* RuntimeError; the loop goes to the next connection, or, after the last,
\* removes the stale ones and sleeps.  _run catches CancelledError only: had
\* the pass let an exception out of broadcast (pc no longer "send"), the
\* task would be over and the stale removal skipped.
SendComplete(t, outcome) ==
  LET r == tasks[t]
      ws == r.snap[r.idx]
      r1 == broadcast_step(r, outcome)
  IN  /\ r.pc = "send"
      /\ ~r.cancelReq
      /\ ws \notin hung
      /\ mgr_lock = Free
      /\ received' = IF outcome = "ok"
                     THEN [received EXCEPT ![ws] = Append(@, Broadcast(r.payload))]
                     ELSE received
      /\ IF r1.pc # "send"
         THEN \* an exception left broadcast and _run
              /\ tasks' = [tasks EXCEPT ![t] = r1]
              /\ UNCHANGED connections
         ELSE IF r1.idx <= Len(r1.snap)
         THEN \* the send to the next connection begins
              /\ tasks' = [tasks EXCEPT ![t] = r1]
              /\ UNCHANGED connections
         ELSE \* for connection in stale: disconnect; asyncio.sleep begins
              /\ tasks' = [tasks EXCEPT ![t] = [r1 EXCEPT !.pc = "sleep"]]
              /\ connections' = disconnect_stale(connections, r1.stale)
      /\ UNCHANGED <<svcVars, mgr_lock, brdVars, pc, initial, hung, lastRead, sim>>

\* The task is stepped after cancel(): CancelledError comes out of the await
\* it was suspended in (or, for a task that never ran, the coroutine never
\* starts) and _run returns.  A send that was in flight may or may not have
\* reached the client.
RunCancelled(t) ==
  LET r == tasks[t] IN
  /\ Live(t)
  /\ r.cancelReq
  /\ tasks' = [tasks EXCEPT ![t] =
                 Ended(IF r.pc = "created" THEN "unstarted" ELSE r.pc,
                       IF r.pc = "send" THEN Len(r.snap) - r.idx ELSE 0)]
  /\ \E delivered \in BOOLEAN :
       received' = IF r.pc = "send" /\ delivered /\ r.snap[r.idx] \notin hung
                   THEN [received EXCEPT ![r.snap[r.idx]] = Append(@, Broadcast(r.payload))]
                   ELSE received
  /\ UNCHANGED <<svcVars, connections, mgr_lock, brdVars, pc, initial, hung, lastRead, sim>>

----------------------------------------------------------------------------
\* MetricsBroadcaster.start and stop.  Each returns how it leaves the lock,
\* the waiters, the tasks, the task handle and its caller.

\* start() without its test: a task is made on every call.
start_creates_always == TRUE

\* if self._task is None or self._task.done()
start_creates == task = None \/ tasks[task].pc = "done"

FreshTask == CHOOSE t \in TaskIds : tasks[t].pc = "unborn" /\ \A u \in TaskIds : u < t => tasks[u].pc # "unborn"

\* The body of start() with the lock held; it has no await, so the lock is
\* released in the same step.
start_locked(c, waiters) ==
  IF start_creates
  THEN [lock |-> Free, waiters |-> waiters, task |-> FreshTask,
        tasks |-> [tasks EXCEPT ![FreshTask] = [Unborn EXCEPT !.pc = "created"]],
        pcv |-> "receive"]
  ELSE [lock |-> Free, waiters |-> waiters, task |-> task, tasks |-> tasks,
        pcv |-> "receive"]

\* await broadcaster.start(): through at once when the lock is free with no
\* waiters, else suspended in acquire().
start_enter(c) ==
  IF b_lock = Free /\ b_waiters = <<>>
  THEN start_locked(c, b_waiters)
  ELSE [lock |-> b_lock, waiters |-> Append(b_waiters, c), task |-> task,
        tasks |-> tasks, pcv |-> "start_wait"]

\* stop() without its "is not None" test: it goes on to the await whatever
\* the handle is.
stop_locked_untested(c, waiters) ==
  [lock |-> c, waiters |-> waiters, task |-> task,
   tasks |-> IF task # None THEN cancel(task) ELSE tasks, pcv |-> "stopping"]

\* The body of stop() with the lock held, up to "await self._task".
stop_locked(c, waiters) ==
  IF task # None
  THEN [lock |-> c, waiters |-> waiters, task |-> task, tasks |-> cancel(task),
        pcv |-> "stopping"]
  ELSE [lock |-> Free, waiters |-> waiters, task |-> task, tasks |-> tasks,
        pcv |-> "done"]

stop_enter(c) ==
  IF b_lock = Free /\ b_waiters = <<>>
  THEN stop_locked(c, b_waiters)
  ELSE [lock |-> b_lock, waiters |-> Append(b_waiters, c), task |-> task,
        tasks |-> tasks, pcv |-> "stop_wait"]

\* finally that stops the broadcaster whatever the connection count is.
finally_always(c, conns) == stop_enter(c)

\* finally: if connection_manager.connection_count == 0: await broadcaster.stop()
finally(c, conns) ==
  IF Len(conns) = 0
  THEN stop_enter(c)
  ELSE [lock |-> b_lock, waiters |-> b_waiters, task |-> task, tasks |-> tasks,
        pcv |-> "done"]

\* Install what start/stop/finally returned.
Leave(c, out) ==
  /\ b_lock' = out.lock
  /\ b_waiters' = out.waiters
  /\ task' = out.task
  /\ tasks' = out.tasks
  /\ pc' = [pc EXCEPT ![c] = out.pcv]

----------------------------------------------------------------------------
\* The metrics_ws handler of client h.

\* await connection_manager.connect(websocket): accept() returns, the
\* websocket is appended; current = await get_current_metrics(); the send of
\* the initial snapshot begins.  No connection is accepted once the server
\* is shutting down.
Connect(h) ==
  /\ pc[h] = "idle"
  /\ pc[ShutdownCaller] = "idle"
  /\ mgr_lock = Free
  /\ svc_lock = Free
  /\ connections' = Append(connections, h)
  /\ initial' = [initial EXCEPT ![h] = get_current_metrics]
  /\ pc' = [pc EXCEPT ![h] = "send_initial"]
  /\ UNCHANGED <<svcVars, mgr_lock, brdVars, tasks, received, hung, lastRead, sim>>

\* websocket.accept() raises: connect() is outside the try, nothing was
\* registered and the handler is over.
AcceptFails(h) ==
  /\ pc[h] = "idle"
  /\ pc[ShutdownCaller] = "idle"
  /\ pc' = [pc EXCEPT ![h] = "done"]
  /\ UNCHANGED <<svcVars, connections, mgr_lock, brdVars, tasks, initial, received, hung, lastRead, sim>>

\* send_personal_message returned: await broadcaster.start(), then
\* receive_text().
InitialSent(h) ==
  /\ pc[h] = "send_initial"
  /\ h \notin hung
  /\ received' = [received EXCEPT ![h] = Append(@, Direct(initial[h]))]
  /\ Leave(h, start_enter(h))
  /\ UNCHANGED <<svcVars, connections, mgr_lock, initial, hung, lastRead, sim>>

\* The handler comes out of an await with WebSocketDisconnect:
\* except WebSocketDisconnect: disconnect(websocket); then the finally.
Disconnected(h) ==
  /\ pc[h] \in {"send_initial", "receive"}
  /\ pc[h] = "send_initial" => h \notin hung
  /\ mgr_lock = Free
  /\ connections' = disconnect(connections, h)
  /\ Leave(h, finally(h, disconnect(connections, h)))
  /\ UNCHANGED <<svcVars, mgr_lock, initial, received, hung, lastRead, sim>>

\* The handler comes out of an await with RuntimeError, which no except
\* clause names: only the finally runs.
HandlerError(h) ==
  /\ pc[h] \in {"send_initial", "receive"}
  /\ pc[h] = "send_initial" => h \notin hung
  /\ Leave(h, finally(h, connections))
  /\ UNCHANGED <<svcVars, connections, mgr_lock, initial, received, hung, lastRead, sim>>

\* A caller suspended in "async with self._lock" of start() gets the lock.
StartAcquire(h) ==
  /\ pc[h] = "start_wait"
  /\ b_lock = Free
  /\ b_waiters # <<>> /\ Head(b_waiters) = h
  /\ Leave(h, start_locked(h, Tail(b_waiters)))
  /\ UNCHANGED <<svcVars, connections, mgr_lock, initial, received, hung, lastRead, sim>>

\* A caller suspended in "async with self._lock" of stop() gets the lock.
StopAcquire(c) ==
  /\ pc[c] = "stop_wait"
  /\ b_lock = Free
  /\ b_waiters # <<>> /\ Head(b_waiters) = c
  /\ Leave(c, stop_locked(c, Tail(b_waiters)))
  /\ UNCHANGED <<svcVars, connections, mgr_lock, initial, received, hung, lastRead, sim>>

\* stop() that does not wait for the task it cancelled.
awaited_at_once(t) == t # None

\* "await self._task" can return: the awaited task has ended.
awaited(t) == t # None /\ tasks[t].pc = "done"

\* "await self._task" returns (CancelledError suppressed): self._task = None
\* and the lock is released.
StopAwaited(c) ==
  /\ pc[c] = "stopping"
  /\ b_lock = c
  /\ awaited(task)
  /\ Leave(c, [lock |-> Free, waiters |-> b_waiters, task |-> None,
               tasks |-> tasks, pcv |-> "done"])
  /\ UNCHANGED <<svcVars, connections, mgr_lock, initial, received, hung, lastRead, sim>>

\* shutdown_event: await broadcaster.stop()
Shutdown ==
  /\ pc[ShutdownCaller] = "idle"
  /\ Leave(ShutdownCaller, stop_enter(ShutdownCaller))
  /\ UNCHANGED <<svcVars, connections, mgr_lock, initial, received, hung, lastRead, sim>>

----------------------------------------------------------------------------
\* The other users of MetricsService.

NoRead == [lag |-> 0, at |-> "none"]

\* GET /api/metrics
GetMetrics ==
  /\ svc_lock = Free
  /\ lastRead' = [lag |-> current_metrics.timestamp - get_current_metrics.timestamp,
                  at |-> IF \E t \in TaskIds : tasks[t].pc = "send"
                         THEN "in_send" ELSE "idle"]
  /\ UNCHANGED <<svcVars, connections, mgr_lock, brdVars, tasks, pc, initial, received,
               hung, sim>>

\* One round of MetricsService.stream_metrics.
StreamMetrics ==
  /\ generate_next_metrics(None)
  /\ UNCHANGED <<connections, mgr_lock, brdVars, tasks, pc, initial, received, hung, lastRead, sim>>

----------------------------------------------------------------------------

InitBut(stalled) ==
  /\ tick = 0
  /\ current_metrics = initial_state
  /\ svc_lock = Free
  /\ log = <<>>
  /\ connections = <<>>
  /\ mgr_lock = Free
  /\ task = None
  /\ b_lock = Free
  /\ b_waiters = <<>>
  /\ tasks = [t \in TaskIds |-> Unborn]
  /\ pc = [c \in Callers |-> "idle"]
  /\ initial = [h \in Clients |-> NoPayload]
  /\ received = [h \in Clients |-> <<>>]
  /\ hung = stalled
  /\ lastRead = NoRead

Init == InitBut({}) /\ sim = NoSim

Next ==
  \/ \E h \in Clients : Connect(h)
  \/ \E h \in Clients : AcceptFails(h)
  \/ \E h \in Clients : InitialSent(h)
  \/ \E h \in Clients : Disconnected(h)
  \/ \E h \in Clients : HandlerError(h)
  \/ \E h \in Clients : StartAcquire(h)
  \/ \E c \in Callers : StopAcquire(c)
  \/ \E c \in Callers : StopAwaited(c)
  \/ Shutdown
  \/ \E t \in TaskIds : RunStart(t)
  \/ \E t \in TaskIds : SleepElapsed(t)
  \/ \E t \in TaskIds, o \in {"ok", "WebSocketDisconnect", "RuntimeError"} : SendComplete(t, o)
  \/ \E t \in TaskIds : RunCancelled(t)
  \/ GetMetrics

\* The application as main.py wires it: the loop is the only caller of
\* generate_next_metrics.
Spec == Init /\ [][Next]_vars

\* MetricsService with further tasks calling generate_next_metrics
\* (consumers of stream_metrics) next to the loop and the readers.
NextService == Next \/ StreamMetrics

SpecService == Init /\ [][NextService]_vars

\* The same program where the transport of at most one client has stalled
\* and completes no send.
InitHung ==
  /\ \E stalled \in SUBSET Clients : Cardinality(stalled) <= 1 /\ InitBut(stalled)
  /\ sim = NoSim

SpecHung == InitHung /\ [][Next]_vars

\* The event loop runs every callback that is ready: a task into which a
\* CancelledError is to be thrown gets its step, a stop() whose awaited task
\* has ended is resumed, and the first waiter of a released lock is woken.
\* Nothing is assumed of the clients: a send or a receive may never complete.
Fairness ==
  /\ \A t \in TaskIds : WF_vars(RunCancelled(t))
  /\ \A c \in Callers : WF_vars(StopAwaited(c)) /\ WF_vars(StopAcquire(c))
  /\ \A h \in Clients : WF_vars(StartAcquire(h))

SpecFair == Init /\ [][Next]_vars /\ Fairness

\* MetricsSimulator.generate_next on its own, applied to the snapshots of
\* SimInputs and to what it returns.
InitSim == InitBut({}) /\ sim \in SimInputs

SpecSim == InitSim /\ [][SimGenerate]_vars

----------------------------------------------------------------------------
\* Properties.

LiveTasks == {t \in TaskIds : Live(t)}

InCycle(t) == tasks[t].pc \in {"send", "sleep"}

\* How often message m occurs in what a client received.
Times(m, s) == Cardinality({i \in 1..Len(s) : s[i] = m})

\* C1: whatever the interleaving of start() and stop() calls, at most one
\* _run task is live (created and not yet ended) at any time.
C1_AtMostOneLoop == Cardinality(LiveTasks) <= 1

\* Both handlers have called start(); the second call found the loop of the
\* first running and made no task.
C1_Witness ==
  /\ \A h \in Clients : pc[h] = "receive"
  /\ task # None /\ Live(task)
  /\ \A t \in TaskIds : t # task => tasks[t].pc = "unborn"

\* The step in which task t comes out of broadcast() into the sleep.
BroadcastReturns(t) == tasks[t].pc = "send" /\ tasks'[t].pc = "sleep"

\* What C2 says of a broadcast call apart from the count: every sink of the
\* list taken when the call began was sent to, each one whose send did not
\* fail got the payload, and on return the failing sinks are out of the
\* registry and no other sink has been removed.
Isolation(t) ==
  LET r == tasks'[t] IN
  /\ \A ws \in Range(r.snap) \ Range(r.stale) :
       Times(Broadcast(r.payload), received'[ws]) = 1
  /\ \A ws \in Range(r.stale) : ~InList(ws, connections')
  /\ \A ws \in Range(connections) \ Range(r.stale) : InList(ws, connections')

\* C2 as stated: ... and on return connection_count equals the count when
\* the call began minus the number of failing sinks.
C2_AsStated ==
  [][\A t \in TaskIds : BroadcastReturns(t) =>
       /\ Isolation(t)
       /\ Len(connections') = Len(tasks'[t].snap) - Len(tasks'[t].stale)]_vars

\* C2 amended: a broadcast call that returns has sent to every sink
\* registered when it began, has delivered to each one whose send did not
\* fail wherever the failing ones sit in the list, and on return has removed
\* the failing sinks and no other; connection_count then equals the count at
\* the start of the call minus the number of failing sinks whenever no
\* handler connected or disconnected while the call was suspended in a send.
C2_BroadcastIsolation ==
  [][\A t \in TaskIds : BroadcastReturns(t) =>
       /\ Isolation(t)
       /\ connections = tasks'[t].snap =>
            Len(connections') = Len(tasks'[t].snap) - Len(tasks'[t].stale)]_vars

\* A broadcast to two sinks has returned: the send to the first in the list
\* failed, the second got the payload, and the registry went from 2 to 1.
C2_Witness ==
  \E t \in TaskIds :
    LET r == tasks[t] IN
    /\ r.pc = "sleep"
    /\ Len(r.snap) = 2
    /\ r.stale = <<r.snap[1]>>
    /\ connections = <<r.snap[2]>>
    /\ Times(Broadcast(r.payload), received[r.snap[2]]) = 1

\* C3: the calls of generate_next_metrics, whoever makes them, form one
\* chain: the n-th call advances the snapshot the (n-1)-th stored, the
\* snapshots produced are pairwise distinct, and the store holds the last.
C3_SnapshotChain ==
  /\ Len(log) = tick
  /\ \A i \in 1..Len(log) :
       log[i].previous = IF i = 1 THEN initial_state ELSE log[i - 1].result
  /\ \A i, j \in 1..Len(log) : i # j => log[i].result # log[j].result
  /\ current_metrics = IF log = <<>> THEN initial_state ELSE log[Len(log)].result

\* Three calls, by the loop and by another task after it (the store is
\* ahead of the payload the loop is broadcasting), with a reader among them.
C3_Witness ==
  /\ Len(log) >= 3
  /\ lastRead.at # "none"
  /\ \E t \in TaskIds :
       /\ InCycle(t)
       /\ tasks[t].payload.timestamp > initial_state.timestamp + StepMinutes
       /\ tasks[t].payload # current_metrics

\* C4: the first message a subscriber observes is the snapshot its handler
\* fetched at join time and sent with send_personal_message; no broadcast
\* reaches it before.
C4_InitialSnapshotFirst ==
  \A h \in Clients :
    received[h] # <<>> => received[h][1] = Direct(initial[h])

\* C5: a subscriber that was sent to in a completed cycle and is still
\* registered has observed that cycle's snapshot exactly once, and what a
\* subscriber observes, initial snapshot included, is strictly increasing in
\* timestamp: no snapshot twice, none older after a newer.
C5_InOrderExactlyOnce ==
  /\ \A t \in TaskIds :
       tasks[t].pc = "sleep" =>
         \A h \in (Range(tasks[t].snap) \ Range(tasks[t].stale)) \cap Range(connections) :
           Times(Broadcast(tasks[t].payload), received[h]) = 1
  /\ \A h \in Clients :
       \A i, j \in 1..Len(received[h]) :
         i < j => received[h][i].timestamp < received[h][j].timestamp

\* C6: once the registry is empty the loop generates no further tick: no
\* cycle of _run begins while connection_count is 0.
C6_NoTickWithoutSubscribers ==
  \A t \in TaskIds : InCycle(t) => tasks[t].snap # <<>>

\* C7: stop() leaves no cycle half-executed: a task that has ended was
\* cancelled before a cycle began (before its first, or in the sleep between
\* two), or in a cycle that had advanced the store and begun the send to
\* every sink of its list.
C7_NoHalfExecutedCycle ==
  \A t \in TaskIds :
    tasks[t].pc = "done" =>
      \/ tasks[t].cut \in {"unstarted", "sleep"}
      \/ tasks[t].cut = "send" /\ tasks[t].unsent = 0

\* C8: a sink whose send never completes blocks nobody: the loop is never
\* suspended in a send to such a sink while other sinks of the same cycle
\* have not been sent the payload yet.
C8_HungSinkBlocksNobody ==
  \A t \in TaskIds :
    (tasks[t].pc = "send" /\ tasks[t].snap[tasks[t].idx] \in hung)
      => tasks[t].idx = Len(tasks[t].snap)

\* C9: while the loop is suspended in a send of broadcast the MetricsService
\* lock is free, a get_current_metrics call goes through, and every read
\* returned the stored snapshot.
C9_ReadNotBlockedBySend ==
  /\ (\E t \in TaskIds : tasks[t].pc = "send") =>
       (svc_lock = Free /\ ENABLED GetMetrics)
  /\ lastRead.lag = 0

\* A GET ran while the loop was suspended in a send.
C9_Witness ==
  /\ lastRead.at = "in_send"
  /\ \E t \in TaskIds : tasks[t].pc = "send"

\* C10: a send that fails inside broadcast does not end the loop and does
\* not touch the store: the task that recorded a failing sink is still in
\* its cycle, and the store holds the snapshot of that cycle.
C10_FailureStaysLocal ==
  \A t \in TaskIds :
    tasks[t].stale # <<>> =>
      /\ InCycle(t)
      /\ current_metrics = tasks[t].payload

\* A sink was removed after its send failed while its handler still waits in
\* receive_text, and the loop is in a later cycle sending to another sink.
C10_Witness ==
  \E t \in TaskIds, h \in Clients :
    /\ pc[h] = "receive"
    /\ ~InList(h, connections)
    /\ tasks[t].pc = "send"
    /\ tasks[t].payload.timestamp > initial_state.timestamp + StepMinutes
    /\ tasks[t].snap[tasks[t].idx] # h

\* C11: once the metrics_ws handler of a subscriber has terminated, whatever
\* ended the connection, its websocket is no longer in the registry.
C11_TerminatedHandlerIsRemoved ==
  \A h \in Clients : pc[h] = "done" => ~InList(h, connections)

\* C12: a task of _run that has not ended is the one self._task names, and
\* outside stop() the handle is None or names a running, uncancelled task:
\* once stop() has returned the task it cancelled has ended (it advances the
\* store no more and sends no more) and self._task is None until the next
\* start.
C12_StopReturnsAfterTaskEnded ==
  /\ \A t \in TaskIds : Live(t) => task = t
  /\ b_lock = Free =>
       (task = None \/ (Live(task) /\ ~tasks[task].cancelReq))

\* stop() has returned after cancelling a task in the middle of its
\* broadcast: the task has ended, the handle is None and the lock is free.
C12_Witness ==
  /\ task = None
  /\ b_lock = Free
  /\ \E c \in Callers : pc[c] = "done"
  /\ \E t \in TaskIds : tasks[t].pc = "done" /\ tasks[t].cut = "send"

\* C13: every KPI field of a snapshot that initial_state or generate_next
\* returns lies within the bounds of that field, whatever the jitter draw
\* and the wave term, rounding included.
C13_KpiWithinBounds ==
  sim.field \in Fields =>
    /\ Kpi[sim.field].minimum <= sim.value
    /\ sim.value <= Kpi[sim.field].maximum

\* generate_next computed a value above the upper bound of a field whose
\* bound is not a whole number, and returned the bound.
C13_Witness ==
  /\ sim.field = "order_accuracy"
  /\ sim.calls > 0
  /\ sim.raw > Kpi[sim.field].maximum
  /\ sim.value = Kpi[sim.field].maximum

\* C14: the tick counter and the stored snapshot advance together: in every
\* state the stored timestamp is the initial timestamp plus tick times five
\* minutes, also after stop() has cancelled the loop at any suspension.
C14_TickAndStoreTogether ==
  current_metrics.timestamp = initial_state.timestamp + tick * StepMinutes

\* The loop was cancelled in the middle of its broadcast, after its cycle
\* had advanced the store, and an earlier tick had happened before.
C14_Witness ==
  /\ tick >= 2
  /\ \E t \in TaskIds : tasks[t].pc = "done" /\ tasks[t].cut = "send"

\* C15: a stop() whose body runs while the broadcaster is Stopped (no task
\* handle), as a second stop() after a first one does, returns in that step
\* and changes nothing: no task is touched, the handle stays None, the lock
\* is free again, the store and what the clients received are as before.
C15_StopWhileStoppedIsNoop ==
  [][\A c \in Callers :
       (/\ task = None
        /\ pc[c] # "stopping"
        /\ pc'[c] # pc[c]
        /\ pc'[c] \in {"done", "stopping"})
       => (/\ pc'[c] = "done"
           /\ task' = None
           /\ b_lock' = b_lock
           /\ UNCHANGED <<tasks, svcVars, received>>)]_vars

\* shutdown_event has called stop() and returned while no loop had ever been
\* started.
C15_Witness ==
  /\ pc[ShutdownCaller] = "done"
  /\ task = None
  /\ b_lock = Free
  /\ \A t \in TaskIds : tasks[t].pc = "unborn"

\* C16: disconnect(ws) of a websocket that is not in the registry leaves the
\* registry as it is, and removing a websocket a second time, by its handler
\* after the stale removal of broadcast or the other way round, gives what
\* removing it once gave; the other connections and their order are kept.
C16_DisconnectIdempotent ==
  \A ws \in Clients :
    LET once == disconnect(connections, ws)
    IN  /\ ~InList(ws, connections) => once = connections
        /\ disconnect(once, ws) = once
        /\ ~InList(ws, once)
        /\ \A other \in Clients \ {ws} :
             InList(other, once) <=> InList(other, connections)

\* The handler of a websocket has removed it while broadcast, which had
\* recorded it as stale, is still sending to the rest of its list: the stale
\* removal that follows finds it gone, and another connection is registered.
C16_Witness ==
  \E t \in TaskIds, ws \in Clients :
    /\ tasks[t].pc = "send"
    /\ InList(ws, tasks[t].stale)
    /\ ~InList(ws, connections)
    /\ connections # <<>>

\* A subscriber that has completed its join (its start() returned, it waits
\* in receive_text) and is still registered.
Joined(h) == pc[h] = "receive" /\ InList(h, connections)

\* The broadcaster is Running: the handle names a task that has not ended
\* and has not been cancelled.
Running == task # None /\ Live(task) /\ ~tasks[task].cancelReq

\* C17: as long as the application has not begun to shut down, the loop is
\* Running whenever some subscriber has completed its join and is still
\* registered, under every interleaving of joining and leaving handlers.
C17_RunningWhileJoined ==
  (pc[ShutdownCaller] = "idle" /\ \E h \in Clients : Joined(h)) => Running

\* One subscriber has left and its stop() ended the loop task of that time;
\* another has joined since, is registered, and a new loop task runs.
C17_Witness ==
  /\ pc[ShutdownCaller] = "idle"
  /\ Running
  /\ \E t \in TaskIds : tasks[t].pc = "done"
  /\ \E h, g \in Clients : pc[h] = "done" /\ Joined(g)

\* C18: the three locks never deadlock. The service lock and the manager
\* lock are free at every suspension, so connect, disconnect,
\* get_current_metrics and generate_next_metrics never wait; and every
\* start() or stop() that waits for the broadcaster lock or for the cancelled
\* task returns.
C18_CallsReturn ==
  /\ [](svc_lock = Free /\ mgr_lock = Free)
  /\ \A c \in Callers :
       (pc[c] \in {"start_wait", "stop_wait", "stopping"})
         ~> (pc[c] \in {"receive", "done"})

\* The stop() of shutdown_event, the only stop() called so far, has returned
\* after holding the broadcaster lock until the task it cancelled inside a
\* send had ended.
C18_Witness ==
  /\ pc[ShutdownCaller] = "done"
  /\ \A h \in Clients : pc[h] \in {"idle", "send_initial", "receive"}
  /\ b_lock = Free
  /\ \E t \in TaskIds : tasks[t].pc = "done" /\ tasks[t].cut = "send"

====
